---- MODULE Spec2Model ----
(***************************************************************************)
(* Plan execution and activity tracking of the file-organization           *)
(* assistant: the PlanExecutor component (components/PlanExecutor.tsx),    *)
(* the page that mounts it (pages/Index), the application context reducer  *)
(* (contexts/AppContext.tsx), its snapshot in localStorage                 *)
(* (services/storage.ts) and the FileOrganizer singleton                   *)
(* (services/fileOrganizer).                                               *)
(*                                                                         *)
(* PlanExecutor is a React function component.  Its handlers are closures  *)
(* of one render: inside a handler `isExecuting`, `isPaused` and `steps`   *)
(* are the constants of the render that created the handler, and a         *)
(* setState call only changes what the NEXT render sees.  The model keeps  *)
(* that distinction: a handler reads the committed state of the render it  *)
(* was created in (the value of the variable when the action starts) and   *)
(* writes the state the next render commits (the primed variable).         *)
(* Calls to setState made in one synchronous stretch of a handler are      *)
(* batched by React, so only the last value written is ever committed.     *)
(***************************************************************************)
EXTENDS Integers, Sequences, FiniteSets, TLC

VARIABLES
    directoryHandle,   \* FileOrganizer.directoryHandle (null or a handle)
    currentView,       \* Index: currentView
    currentPlan,       \* AppState.currentPlan (null or an ArchivePlan)
    mounted,           \* whether a PlanExecutor instance is mounted
    steps,             \* PlanExecutor: steps
    isExecuting,       \* PlanExecutor: isExecuting
    isPaused,          \* PlanExecutor: isPaused
    currentStep,       \* PlanExecutor: currentStep
    overallProgress,   \* PlanExecutor: overallProgress
    startTime,         \* PlanExecutor: startTime
    endTime,           \* PlanExecutor: endTime
    activityHistory,   \* AppState.activityHistory
    isPlanExecuting,   \* AppState.isPlanExecuting
    lastToast,         \* the most recent toast shown
    clock,             \* logical time: one tick per handler invocation
    startClicks,       \* number of clicks on "Start Execution" so far
    currentProvider,   \* AppState.currentProvider (null or an AIProvider)
    providers,         \* AppState.providers
    savedPlans,        \* AppState.savedPlans
    isAnalyzing,       \* AppState.isAnalyzing
    storage,           \* localStorage item 'smart-archiver-state'
    appPhase,          \* AppProvider: "mounting", "ready" or "crashed"
    lastWrite,         \* outcome of the most recent localStorage.setItem
    aiContent,         \* the content of the AI provider's response
    analysis,          \* outcome of AIService.analyzeFiles on that content
    reparsed,          \* a saved plan after JSON.stringify and JSON.parse
    createdFolders,    \* FileOrganizer.createdFolders
    directories,       \* what each directory of the file system holds
    organizeRun,       \* the organizeFiles call in flight, if any
    lastResult,        \* the OrganizationResult of the last finished call
    currentTime,       \* the instant of Date.now(), in minutes
    timezone,          \* minutes the local time is ahead of that instant
    dateKey,           \* the group ActivityHistory last put an activity in
    batchFiles,        \* BatchProcessor files
    isProcessing,      \* BatchProcessor isProcessing
    batchPaused,       \* BatchProcessor isPaused
    currentFileIndex,  \* BatchProcessor currentFileIndex
    batchProgress,     \* BatchProcessor progress: <<a, b>> is (a / b) * 100
    batchLoops         \* the processBatch calls suspended at an await

vars == <<directoryHandle, currentView, currentPlan, mounted, steps,
          isExecuting, isPaused, currentStep, overallProgress, startTime,
          endTime, activityHistory, isPlanExecuting, lastToast, clock,
          startClicks, currentProvider, providers, savedPlans, isAnalyzing,
          storage, appPhase, lastWrite, aiContent, analysis, reparsed,
          createdFolders, directories, organizeRun, lastResult,
          currentTime, timezone, dateKey, batchFiles, isProcessing,
          batchPaused, currentFileIndex, batchProgress, batchLoops>>

executorVars == <<steps, isExecuting, isPaused, currentStep, overallProgress,
                  startTime, endTime>>

\* AppState fields only the settings functions of the context dispatch on
settingsVars == <<currentProvider, providers, isAnalyzing>>

storeVars == <<storage, lastWrite>>

builderVars == <<aiContent, analysis, reparsed>>

organizerVars == <<createdFolders, directories, organizeRun, lastResult>>

groupingVars == <<currentTime, timezone, dateKey>>

batchVars == <<batchFiles, isProcessing, batchPaused, currentFileIndex,
               batchProgress, batchLoops>>

(***************************************************************************)
(* Bounds                                                                  *)
(***************************************************************************)
MaxOps == 3        \* operations in a plan
MaxClicks == 3     \* clicks on "Start Execution" in one behaviour
MaxRecords == 102  \* addActivityRecord calls in one behaviour of SpecLedger

(***************************************************************************)
(* Types                                                                   *)
(***************************************************************************)
Null == "null"

\* a nullable plan or Date: None is null, Some(x) holds x
None == <<>>
Some(x) == <<x>>

PENDING == "pending"
IN_PROGRESS == "in_progress"
COMPLETED == "completed"
FAILED == "failed"
CANCELLED == "cancelled"
ROLLED_BACK == "rolled_back"

OperationStatus ==
    {PENDING, IN_PROGRESS, COMPLETED, FAILED, CANCELLED, ROLLED_BACK}

Terminal == {COMPLETED, FAILED, CANCELLED, ROLLED_BACK}

PLAN_EXECUTED == "plan_executed"
PLAN_CANCELLED == "plan_cancelled"
FOLDER_CREATED == "folder_created"
FILE_MOVED == "file_moved"

OpKinds == {"create_folder", "move"}

\* the directories the picker can hand back
Handles == {"dirA", "dirB"}

\* the archive plans a session can hold: only operations[] matters here
Plans == UNION {[1..n -> OpKinds] : n \in 0..MaxOps}

Views == {"home", "upload", "plan", "executor", "saved-plans", "activity"}

NoToast == "none"
ToastNoLocation == "Please select an organization location first"
ToastSuccess == "Plan executed successfully!"
ToastErrors == "Plan execution completed with errors"

(***************************************************************************)
(* Activity ledger (AppContext reducer)                                    *)
(***************************************************************************)
\* ADD_ACTIVITY keeps the first 99 records of the previous history
HistoryKeep == 99

Min(a, b) == IF a < b THEN a ELSE b

\* an ADD_ACTIVITY with no slice: nothing is ever dropped
AddActivityReducerKeepAll(history, payload) == <<payload>> \o history

\* an ADD_ACTIVITY that slices from 1: the newest old record is dropped
AddActivityReducerDropNewest(history, payload) ==
    <<payload>> \o SubSeq(history, 2, Min(Len(history), HistoryKeep + 1))

\* case 'ADD_ACTIVITY': [action.payload, ...state.activityHistory.slice(0, 99)]
AddActivityReducer(history, payload) ==
    <<payload>> \o SubSeq(history, 1, Min(Len(history), HistoryKeep))

\* case 'CLEAR_HISTORY': activityHistory: []
ClearHistoryReducer == <<>>

\* activityManager.createFileUploadActivity
FileUploadRecord ==
    [type |-> "file_upload", status |-> COMPLETED, title |-> "Files Uploaded"]

\* activityManager.addActivity stamps id and timestamp on the record; the id
\* (time + random suffix) is modelled by the pair <<time, k>>, k the position of
\* the record among those stamped in the same handler; the timestamp is an ISO
\* string (new Date().toISOString()), modelled by the time it denotes
addActivity(activity, time, k) ==
    [id |-> <<time, k>>, timestamp |-> time, type |-> activity.type,
     status |-> activity.status, title |-> activity.title]

(***************************************************************************)
(* FileOrganizer                                                           *)
(***************************************************************************)
\* a location check that always passes
isLocationSelectedAlways == TRUE

\* isLocationSelected(): this.directoryHandle !== null
isLocationSelected == directoryHandle # Null

(***************************************************************************)
(* PlanExecutor                                                            *)
(***************************************************************************)
\* a step list built from the operations in reverse
InitialStepsReversed(plan) ==
    [i \in 1..Len(plan) |->
        [id |-> i - 1, operation |-> plan[Len(plan) + 1 - i],
         status |-> PENDING, progress |-> 0, error |-> Null]]

\* useEffect([plan]): one pending ExecutionStep per operation of the plan
InitialSteps(plan) ==
    [i \in 1..Len(plan) |->
        [id |-> i - 1, operation |-> plan[i], status |-> PENDING,
         progress |-> 0, error |-> Null]]

\* a mount whose pause flag starts raised
MountedPaused(plan) ==
    /\ steps' = InitialSteps(plan)
    /\ isExecuting' = FALSE
    /\ isPaused' = TRUE
    /\ currentStep' = 0
    /\ overallProgress' = 0
    /\ startTime' = None
    /\ endTime' = None

\* the state a freshly mounted PlanExecutor commits for `plan`
MountedWith(plan) ==
    /\ steps' = InitialSteps(plan)
    /\ isExecuting' = FALSE
    /\ isPaused' = FALSE
    /\ currentStep' = 0
    /\ overallProgress' = 0
    /\ startTime' = None
    /\ endTime' = None

\* an unmounted PlanExecutor holds no state
Unmounted ==
    /\ steps' = <<>>
    /\ isExecuting' = FALSE
    /\ isPaused' = FALSE
    /\ currentStep' = 0
    /\ overallProgress' = 0
    /\ startTime' = None
    /\ endTime' = None

\* the "Start Execution" button is rendered only when !isExecuting; the
\* Pause, Resume and Stop buttons only in a render with isExecuting true
StartButtonRendered == mounted /\ ~isExecuting

\* the values of the render whose startExecution the click invokes
Closure ==
    [isExecuting |-> isExecuting, isPaused |-> isPaused, steps |-> steps]

\* line 164-165: the number of loop bodies startExecution enters before it
\* leaves the loop.  `isExecuting` is the closure's constant, not the state
\* setIsExecuting(true) has just scheduled, so `if (!isExecuting) break`
\* leaves the loop at the first iteration whenever the closure holds false.
IterationsEntered(closure) ==
    IF closure.isExecuting THEN Len(closure.steps) ELSE 0

StartedRecord ==
    [type |-> PLAN_EXECUTED, status |-> IN_PROGRESS,
     title |-> "Plan Execution Started"]

\* a closing record of the cancelled kind whatever the final status
FinishedRecordCancelled(finalStatus) ==
    [type |-> PLAN_CANCELLED, status |-> CANCELLED,
     title |-> "Plan Execution Completed"]

FinishedRecord(finalStatus) ==
    [type |-> PLAN_EXECUTED, status |-> finalStatus,
     title |-> "Plan Execution Completed"]

(***************************************************************************)
(* Application state (AppContext) and its snapshot in localStorage          *)
(* (services/storage.ts).                                                  *)
(*                                                                         *)
(* A JavaScript object read back from JSON may hold any subset of the keys *)
(* of AppState, so an object is a record over all seven keys whose value   *)
(* is None where the object lacks the key and Some(v) where it holds v.    *)
(* A nullable field that is present holds None (null) or Some(x), so a     *)
(* present null is Some(None).                                             *)
(***************************************************************************)
StateKeys ==
    {"currentProvider", "providers", "currentPlan", "savedPlans",
     "activityHistory", "isAnalyzing", "isPlanExecuting"}

InitialProviders ==
    <<[id |-> "openai", apiKey |-> "", isConnected |-> FALSE],
      [id |-> "openrouter", apiKey |-> "", isConnected |-> FALSE],
      [id |-> "ollama", apiKey |-> "", isConnected |-> FALSE]>>

\* const initialState: AppState
initialState ==
    [currentProvider |-> None, providers |-> InitialProviders,
     currentPlan |-> None, savedPlans |-> <<>>, activityHistory |-> <<>>,
     isAnalyzing |-> FALSE, isPlanExecuting |-> FALSE]

\* the reducer state of the committed render
AppState ==
    [currentProvider |-> currentProvider, providers |-> providers,
     currentPlan |-> currentPlan, savedPlans |-> savedPlans,
     activityHistory |-> activityHistory, isAnalyzing |-> isAnalyzing,
     isPlanExecuting |-> isPlanExecuting]

\* the reducer state of the render the step commits
AppStateNext ==
    [currentProvider |-> currentProvider', providers |-> providers',
     currentPlan |-> currentPlan', savedPlans |-> savedPlans',
     activityHistory |-> activityHistory', isAnalyzing |-> isAnalyzing',
     isPlanExecuting |-> isPlanExecuting']

\* a saveState that also writes the plan under review
stateToSaveWithPlan(state) ==
    [currentProvider |-> Some(state.currentProvider),
     providers |-> Some(state.providers),
     currentPlan |-> Some(state.currentPlan),
     savedPlans |-> Some(state.savedPlans),
     activityHistory |-> Some(state.activityHistory),
     isAnalyzing |-> None,
     isPlanExecuting |-> None]

\* saveState, l.13-18: the object handed to JSON.stringify
stateToSave(state) ==
    [currentProvider |-> Some(state.currentProvider),
     providers |-> Some(state.providers),
     currentPlan |-> None,
     savedPlans |-> Some(state.savedPlans),
     activityHistory |-> Some(state.activityHistory),
     isAnalyzing |-> None,
     isPlanExecuting |-> None]

\* The content of the localStorage item: no item, a text JSON.parse rejects,
\* or the JSON text of an object.  Every value of the modelled state is a
\* string, a finite number, a boolean, null, an array or a plain object
\* (timestamps are ISO strings, activityManager l.6, AppContext l.140), which
\* JSON.stringify writes and JSON.parse reads back unchanged; the text of an
\* object is therefore represented by the object it denotes.
Absent == [kind |-> "absent"]
Garbage == [kind |-> "garbage"]
JSONStringify(object) == [kind |-> "json", value |-> object]

\* JSON.parse: throws on a text that is not JSON
JSONParse(item) ==
    IF item.kind = "json" THEN [threw |-> FALSE, value |-> item.value]
                          ELSE [threw |-> TRUE, value |-> None]

\* localStorage.setItem: stores the text, or throws (quota exceeded, storage
\* disabled) and leaves the item as it was
setItem(item, text, ok) == IF ok THEN text ELSE item

\* saveState, l.10-23: the item after the call; a throw of setItem is caught
saveState(item, state, ok) ==
    setItem(item, JSONStringify(stateToSave(state)), ok)

\* a loadState with no try/catch around JSON.parse
loadStateUncaught(item) ==
    IF item.kind = "absent"
       THEN [threw |-> FALSE, value |-> None]
       ELSE IF JSONParse(item).threw
               THEN [threw |-> TRUE, value |-> None]
               ELSE [threw |-> FALSE, value |-> Some(JSONParse(item).value)]

\* loadState, l.25-35: Some(object), or None for null.  `threw` tells whether
\* the call propagated an exception: the try/catch makes that never happen.
loadState(item) ==
    IF item.kind = "absent"
       THEN [threw |-> FALSE, value |-> None]
       ELSE IF JSONParse(item).threw
               THEN [threw |-> FALSE, value |-> None]
               ELSE [threw |-> FALSE, value |-> Some(JSONParse(item).value)]

\* case 'LOAD_STATE': { ...state, ...action.payload }: every key the payload
\* holds replaces the state's
LoadStateReducer(state, payload) ==
    [key \in StateKeys |->
        IF payload[key] = None THEN state[key] ELSE payload[key][1]]

\* case 'DELETE_SAVED_PLAN': savedPlans.filter(plan => plan.id !== payload)
DeleteSavedPlanReducer(plans, planId) ==
    SelectSeq(plans, LAMBDA plan : plan.id # planId)

\* savePlan, l.137-142: id and createdAt are strings made from the clock
SavedArchivePlan(planId, plan) ==
    [id |-> planId, name |-> "plan", createdAt |-> planId, plan |-> plan]

\* the lists of saved plans a started session can hold
SavedPlanLists ==
    {<<>>} \cup {<<SavedArchivePlan(1, p)>> : p \in Plans}

\* a save effect that runs after the first render only (useEffect(..., []))
SaveEffectAtMountOnly == UNCHANGED storeVars

\* the save effect (useEffect([state]), l.112-114) of the render the step
\* commits: saveState(state) with that render's state
SaveEffect ==
    \E ok \in BOOLEAN :
        /\ storage' = saveState(storage, AppStateNext, ok)
        /\ lastWrite' = IF ok THEN "ok" ELSE "failed"

Ready == appPhase = "ready"

(***************************************************************************)
(* Folder names.  A name is the sequence of its characters.                *)
(***************************************************************************)
InvalidChars == {"<", ">", ":", "\"", "/", "\\", "|", "?", "*"}

WhitespaceChars == {" ", "\t", "\n"}

\* .substring(0, 50)
MaxFolderNameLength == 50

\* the folder names a classifier answers with
RawNames == {<<"a">>, <<"A">>, <<"a", " ">>, <<"a", "/">>}

\* .replace(/[<>:"/\\|?*]/g, '_')
ReplaceInvalid(name) ==
    [i \in 1..Len(name) |->
        IF name[i] \in InvalidChars THEN "_" ELSE name[i]]

\* .replace(/\s+/g, '_'): every run of whitespace becomes one underscore
RECURSIVE CollapseWhitespace(_)
CollapseWhitespace(name) ==
    IF name = <<>>
       THEN <<>>
       ELSE IF Head(name) \in WhitespaceChars
               THEN IF Len(name) > 1 /\ name[2] \in WhitespaceChars
                       THEN CollapseWhitespace(Tail(name))
                       ELSE <<"_">> \o CollapseWhitespace(Tail(name))
               ELSE <<Head(name)>> \o CollapseWhitespace(Tail(name))

toLowerCase(char) ==
    CASE char = "A" -> "a"
      [] char = "B" -> "b"
      [] OTHER -> char

\* FileOrganizer.sanitizeFolderName
sanitizeFolderName(name) ==
    LET replaced == CollapseWhitespace(ReplaceInvalid(name))
        cut == SubSeq(replaced, 1, Min(Len(replaced), MaxFolderNameLength))
    IN  [i \in 1..Len(cut) |-> toLowerCase(cut[i])]

(***************************************************************************)
(* Plan Builder (AIService.analyzeFiles, parseAIResponse,                  *)
(* createArchivePlan).  The parsed classification is whatever JSON the     *)
(* provider answered: a key may be missing (None) or present (Some(v)).    *)
(* Confidences are counted in hundredths; a number is the fraction         *)
(* num/den, NaN, or - in JSON text only - null.                            *)
(***************************************************************************)
MaxFolders == 2    \* folders in one classification

Number(n, d) == [kind |-> "number", num |-> n, den |-> d]
NaN == [kind |-> "NaN"]
JSONNull == [kind |-> "null"]

Paths == {"p1", "p2"}

FileActions == {"move", "copy", "link", "ignore"}

\* FolderPlan.files[]: path, action, confidence
FileChoices ==
    {[path |-> "p1", action |-> "move", confidence |-> Some(50)],
     [path |-> "p1", action |-> "ignore", confidence |-> Some(50)],
     [path |-> "p2", action |-> "copy", confidence |-> None],
     [path |-> "p2", action |-> "link", confidence |-> Some(20)]}

\* the files key of a folder: missing, empty, one file, or two files
FileLists ==
    {None, Some(<<>>)}
        \cup {Some(<<f>>) :
                 f \in {g \in FileChoices : g.action \in {"ignore", "copy"}}}
        \cup {Some(<<[path |-> "p1", action |-> "move",
                      confidence |-> Some(50)],
                     [path |-> "p2", action |-> "link",
                      confidence |-> Some(20)]>>)}

FolderChoices ==
    [name : RawNames, confidence : {None, Some(80)}, files : FileLists]

\* the lists of at most `max` folders
FolderLists(max) == UNION {[1..n -> FolderChoices] : n \in 0..max}

\* what JSON.parse hands to createArchivePlan
ClassifierObjects(max) ==
    [folders : {None} \cup {Some(l) : l \in FolderLists(max)},
     sensitive_files : {None, Some(<<[path |-> "p1"]>>)}]

\* the content of a response: nothing, prose with no {...} in it, braces
\* around something JSON.parse rejects, or the JSON text of an object
Contents(max) ==
    {[kind |-> "empty"], [kind |-> "prose"], [kind |-> "malformed"]}
        \cup {JSONStringify(object) : object \in ClassifierObjects(max)}

\* parseAIResponse, l.184-197
parseAIResponse(content) ==
    IF content.kind = "json" THEN [threw |-> FALSE, value |-> content.value]
                             ELSE [threw |-> TRUE]

\* folders.map(folder => ({ op: 'create_folder', target: folder.name, ... }))
CreateFolderOperations(folders) ==
    [i \in 1..Len(folders) |->
        [op |-> "create_folder", target |-> folders[i].name, items |-> <<>>]]

\* folder.files.map(file => ({ op: file.action, target: folder.name,
\* items: [file.path], ... }))
FileOperations(folder) ==
    [j \in 1..Len(folder.files[1]) |->
        [op |-> folder.files[1][j].action, target |-> folder.name,
         items |-> <<folder.files[1][j].path>>]]

RECURSIVE FlatMapFileOperations(_)
FlatMapFileOperations(folders) ==
    IF folders = <<>>
       THEN <<>>
       ELSE FileOperations(Head(folders))
               \o FlatMapFileOperations(Tail(folders))

FileConfidences(folder) ==
    [j \in 1..Len(folder.files[1]) |-> folder.files[1][j].confidence]

RECURSIVE FlatMapFileConfidences(_)
FlatMapFileConfidences(folders) ==
    IF folders = <<>>
       THEN <<>>
       ELSE FileConfidences(Head(folders))
               \o FlatMapFileConfidences(Tail(folders))

\* l.224-227
AllConfidences(folders) ==
    [i \in 1..Len(folders) |-> folders[i].confidence]
        \o FlatMapFileConfidences(folders)

RECURSIVE SumOf(_)
SumOf(values) ==
    IF values = <<>> THEN 0 ELSE Head(values)[1] + SumOf(Tail(values))

\* a mean over the folder confidences alone
ConfidenceMeanOfFolders(folders) ==
    LET all == [i \in 1..Len(folders) |-> folders[i].confidence]
    IN  IF Len(all) = 0
           THEN Number(0, 1)
           ELSE IF \E i \in DOMAIN all : all[i] = None
                   THEN NaN
                   ELSE Number(SumOf(all), Len(all))

\* l.228-230: reduce((a, b) => a + b, 0) / length, or 0 for no confidences;
\* a missing confidence is undefined, and a sum with undefined is NaN
ConfidenceMean(folders) ==
    LET all == AllConfidences(folders)
    IN  IF Len(all) = 0
           THEN Number(0, 1)
           ELSE IF \E i \in DOMAIN all : all[i] = None
                   THEN NaN
                   ELSE Number(SumOf(all), Len(all))

RECURSIVE CountFiles(_)
CountFiles(folders) ==
    IF folders = <<>>
       THEN 0
       ELSE Len(Head(folders).files[1]) + CountFiles(Tail(folders))

\* createArchivePlan, l.199-276.  `aiResult.folders || []`; folder.files.map
\* throws a TypeError on a folder with no files list.
createArchivePlan(aiResult) ==
    LET folders == IF aiResult.folders = None THEN <<>>
                                              ELSE aiResult.folders[1]
    IN  IF \E i \in DOMAIN folders : folders[i].files = None
           THEN [threw |-> TRUE]
           ELSE [threw |-> FALSE,
                 plan |->
                   [folders |-> folders,
                    operations |-> CreateFolderOperations(folders)
                                     \o FlatMapFileOperations(folders),
                    sensitive |-> IF aiResult.sensitive_files = None
                                     THEN <<>>
                                     ELSE aiResult.sensitive_files[1],
                    metrics |->
                      [confidence_mean |-> ConfidenceMean(folders),
                       folders_created |-> Len(folders),
                       files_moved |-> CountFiles(folders)]]]

\* analyzeFiles, l.143-166: the plan, or the error thrown
AnalysisOf(content) ==
    IF content.kind = "empty"
       THEN [status |-> "error"]
       ELSE IF parseAIResponse(content).threw
               THEN [status |-> "error"]
               ELSE IF createArchivePlan(parseAIResponse(content).value).threw
                       THEN [status |-> "error"]
                       ELSE [status |-> "plan",
                             plan |-> createArchivePlan(
                                        parseAIResponse(content).value).plan]

\* JSON.stringify writes NaN as null
SerializeNumber(x) == IF x.kind = "NaN" THEN JSONNull ELSE x

\* the JSON value JSON.stringify writes for a saved plan
SavedPlanToJSON(saved) ==
    [saved EXCEPT !.plan.metrics.confidence_mean = SerializeNumber(@)]

(***************************************************************************)
(* The services before their first call: nothing analysed, no folder       *)
(* created.  A directory is the folders directly under it and the files in *)
(* them.                                                                   *)
(***************************************************************************)
NoContent == [kind |-> "none"]
NotAnalyzed == [status |-> "none"]
EmptyDirectory == [folders |-> {}, files |-> {}]
EmptyDirectories == [h \in Handles |-> EmptyDirectory]

ServicesIdle ==
    /\ aiContent = NoContent
    /\ analysis = NotAnalyzed
    /\ reparsed = None
    /\ createdFolders = {}
    /\ organizeRun = None
    /\ lastResult = None
    /\ dateKey = None
    /\ batchFiles = <<>>
    /\ isProcessing = FALSE
    /\ batchPaused = FALSE
    /\ currentFileIndex = 0
    /\ batchProgress = <<0, 1>>
    /\ batchLoops = <<>>

\* time is counted in minutes from a local midnight; the sessions that do
\* not look at the time are followed at one instant
MinutesPerDay == 1440
FirstNow == 20 * MinutesPerDay
AtFirstNow == currentTime = FirstNow /\ timezone = 0

(***************************************************************************)
(* Initial state: a started session.  AppProvider has mounted and its two   *)
(* effects have run over a snapshot holding at most one saved plan, and    *)
(* the snapshot has been written back; nothing is selected yet.            *)
(***************************************************************************)
PageStarted ==
    /\ directoryHandle = Null
    /\ currentView = "home"
    /\ currentPlan = None
    /\ mounted = FALSE
    /\ steps = <<>>
    /\ isExecuting = FALSE
    /\ isPaused = FALSE
    /\ currentStep = 0
    /\ overallProgress = 0
    /\ startTime = None
    /\ endTime = None
    /\ activityHistory = <<>>
    /\ isPlanExecuting = FALSE
    /\ lastToast = NoToast
    /\ clock = 0
    /\ startClicks = 0
    /\ savedPlans \in SavedPlanLists
    /\ isAnalyzing = FALSE
    /\ storage = saveState(Absent, AppState, TRUE)
    /\ appPhase = "ready"
    /\ lastWrite = "ok"
    /\ ServicesIdle

\* no provider has been connected
SessionStarted ==
    /\ currentProvider = None
    /\ providers = InitialProviders
    /\ PageStarted

\* both directories the picker can return are empty
Init == SessionStarted /\ directories = EmptyDirectories /\ AtFirstNow

(***************************************************************************)
(* Page and services                                                       *)
(***************************************************************************)
\* LocationPicker (rendered in the upload view): the directory picker resolves
\* with a handle
selectOrganizationLocation ==
    /\ Ready
    /\ UNCHANGED <<builderVars, organizerVars, groupingVars, batchVars>>
    /\ currentView = "upload"
    /\ \E h \in Handles :
        /\ directoryHandle' = h
        /\ lastToast' = "Location Selected"
    /\ UNCHANGED <<currentView, currentPlan, mounted, executorVars,
                   activityHistory, isPlanExecuting, clock, startClicks,
                   savedPlans, settingsVars, storeVars, appPhase>>

\* the picker rejects (the user dismisses it): the handle is left as it was
selectOrganizationLocationCancelled ==
    /\ Ready
    /\ UNCHANGED <<builderVars, organizerVars, groupingVars, batchVars>>
    /\ currentView = "upload"
    /\ lastToast' = "Selection Cancelled"
    /\ UNCHANGED <<directoryHandle, currentView, currentPlan, mounted,
                   executorVars, activityHistory, isPlanExecuting, clock,
                   startClicks, savedPlans, settingsVars, storeVars,
                   appPhase>>

\* SavedPlans.handleLoadPlan on one of the listed plans:
\* setCurrentPlan(plan.plan)
handleLoadPlan ==
    /\ Ready
    /\ UNCHANGED <<builderVars, organizerVars, groupingVars, batchVars>>
    /\ currentView = "saved-plans"
    /\ \E k \in DOMAIN savedPlans : currentPlan' = Some(savedPlans[k].plan)
    /\ lastToast' = "Loaded plan"
    /\ UNCHANGED <<directoryHandle, currentView, mounted, executorVars,
                   activityHistory, isPlanExecuting, clock, startClicks,
                   savedPlans, settingsVars, appPhase>>
    /\ SaveEffect

\* SavedPlans.handleDeletePlan on one of the listed plans:
\* deleteSavedPlan(planId)
handleDeletePlan ==
    /\ Ready
    /\ UNCHANGED <<builderVars, organizerVars, groupingVars, batchVars>>
    /\ currentView = "saved-plans"
    /\ \E k \in DOMAIN savedPlans :
          savedPlans' = DeleteSavedPlanReducer(savedPlans, savedPlans[k].id)
    /\ lastToast' = "Deleted plan"
    /\ UNCHANGED <<directoryHandle, currentView, currentPlan, mounted,
                   executorVars, activityHistory, isPlanExecuting, clock,
                   startClicks, settingsVars, appPhase>>
    /\ SaveEffect

\* ActivityHistory.handleClearHistory (the button is rendered when the
\* history is not empty): clearHistory()
handleClearHistory ==
    /\ Ready
    /\ UNCHANGED <<builderVars, organizerVars, groupingVars, batchVars>>
    /\ currentView = "activity"
    /\ activityHistory # <<>>
    /\ activityHistory' = ClearHistoryReducer
    /\ lastToast' = "Activity history cleared"
    /\ UNCHANGED <<directoryHandle, currentView, currentPlan, mounted,
                   executorVars, isPlanExecuting, clock, startClicks,
                   savedPlans, settingsVars, appPhase>>
    /\ SaveEffect

\* Layout.onViewChange / ArchivePlanView.onExecute: setCurrentView(view).
\* PlanExecutor is rendered in the executor view when a plan is current.
onViewChange ==
    \E v \in Views :
        /\ Ready
        /\ UNCHANGED <<builderVars, organizerVars, groupingVars, batchVars>>
        /\ v # currentView
        /\ currentView' = v
        /\ mounted' = (v = "executor" /\ currentPlan # None)
        /\ IF mounted' THEN MountedWith(currentPlan[1]) ELSE Unmounted
        /\ UNCHANGED <<directoryHandle, currentPlan, activityHistory,
                       isPlanExecuting, lastToast, clock, startClicks,
                       savedPlans, settingsVars, storeVars, appPhase>>

(***************************************************************************)
(* PlanExecutor.startExecution                                             *)
(***************************************************************************)
\* line 141-144: no location selected: toast and return
startExecutionNoLocation ==
    /\ Ready
    /\ UNCHANGED <<builderVars, organizerVars, groupingVars, batchVars>>
    /\ StartButtonRendered
    /\ startClicks < MaxClicks
    /\ ~isLocationSelected
    /\ startClicks' = startClicks + 1
    /\ lastToast' = ToastNoLocation
    /\ UNCHANGED <<directoryHandle, currentView, currentPlan, mounted,
                   executorVars, activityHistory, isPlanExecuting, clock,
                   savedPlans, settingsVars, storeVars, appPhase>>

\* line 146-203 with a location selected.  The closure of a render that shows
\* the Start button holds isExecuting = false, so the loop is left before its
\* first body (IterationsEntered = 0), no await is reached and the handler runs
\* to its end in the click's own synchronous stretch: executeStep is not
\* called, successCount stays 0, and of each state written twice
\* (isExecuting, isPlanExecuting) the last write is the one committed.
startExecutionRun ==
    /\ Ready
    /\ UNCHANGED <<builderVars, organizerVars, groupingVars, batchVars>>
    /\ StartButtonRendered
    /\ startClicks < MaxClicks
    /\ isLocationSelected
    /\ LET closure == Closure
           n == Len(closure.steps)
           successCount == 0   \* line 162; line 171 is in the loop body
           finalStatus == IF successCount = n THEN COMPLETED ELSE FAILED
           now == clock + 1
           h1 == AddActivityReducer(activityHistory,
                                    addActivity(StartedRecord, now, 1))
           h2 == AddActivityReducer(h1,
                                    addActivity(FinishedRecord(finalStatus),
                                                now, 2))
       IN  /\ IterationsEntered(closure) = 0
           /\ startClicks' = startClicks + 1
           /\ clock' = now
           /\ activityHistory' = h2
           /\ isPlanExecuting' = FALSE
           /\ IF finalStatus = COMPLETED
                 THEN \* onComplete(): setCurrentPlan(null); setCurrentView('home')
                      /\ lastToast' = ToastSuccess
                      /\ currentPlan' = None
                      /\ currentView' = "home"
                      /\ mounted' = FALSE
                      /\ Unmounted
                 ELSE /\ lastToast' = ToastErrors
                      /\ isExecuting' = FALSE
                      /\ startTime' = Some(now)
                      /\ endTime' = Some(now)
                      /\ UNCHANGED <<currentPlan, currentView, mounted, steps,
                                     isPaused, currentStep, overallProgress>>
    /\ UNCHANGED <<directoryHandle, savedPlans, settingsVars, appPhase>>
    /\ SaveEffect

Next ==
    \/ selectOrganizationLocation
    \/ selectOrganizationLocationCancelled
    \/ handleLoadPlan
    \/ handleDeletePlan
    \/ handleClearHistory
    \/ onViewChange
    \/ startExecutionNoLocation
    \/ startExecutionRun

Spec == Init /\ [][Next]_vars

(***************************************************************************)
(* Startup over a stored snapshot.  SpecStore starts where AppProvider has *)
(* rendered for the first time with initialState and its effects have not  *)
(* run yet, over whatever an earlier session, another version of the       *)
(* application or the user left in the localStorage item.                  *)
(***************************************************************************)
ConnectedProvider == [id |-> "ollama", apiKey |-> "", isConnected |-> TRUE]

StoredProviders ==
    <<[id |-> "openai", apiKey |-> "", isConnected |-> FALSE],
      ConnectedProvider>>

StoredPlans ==
    <<SavedArchivePlan(1, <<"create_folder", "move">>),
      SavedArchivePlan(2, <<>>)>>

StoredHistory ==
    <<[id |-> <<0, 1>>, timestamp |-> 0, type |-> PLAN_EXECUTED,
       status |-> COMPLETED, title |-> "Plan Execution Completed"]>>

\* the objects a stored snapshot can denote: any subset of the keys of AppState
StoredObjects ==
    [currentProvider : {None, Some(Some(ConnectedProvider))},
     providers : {None, Some(StoredProviders)},
     currentPlan : {None, Some(Some(<<"move">>))},
     savedPlans : {None, Some(StoredPlans)},
     activityHistory : {None, Some(StoredHistory)},
     isAnalyzing : {None, Some(TRUE)},
     isPlanExecuting : {None, Some(TRUE)}]

StoredItems ==
    {Absent, Garbage} \cup {JSONStringify(object) : object \in StoredObjects}

InitStore ==
    /\ directoryHandle = Null
    /\ currentView = "home"
    /\ mounted = FALSE
    /\ steps = <<>>
    /\ isExecuting = FALSE
    /\ isPaused = FALSE
    /\ currentStep = 0
    /\ overallProgress = 0
    /\ startTime = None
    /\ endTime = None
    /\ lastToast = NoToast
    /\ clock = 0
    /\ startClicks = 0
    /\ currentProvider = initialState.currentProvider
    /\ providers = initialState.providers
    /\ currentPlan = initialState.currentPlan
    /\ savedPlans = initialState.savedPlans
    /\ activityHistory = initialState.activityHistory
    /\ isAnalyzing = initialState.isAnalyzing
    /\ isPlanExecuting = initialState.isPlanExecuting
    /\ storage \in StoredItems
    /\ appPhase = "mounting"
    /\ lastWrite = "none"
    /\ ServicesIdle
    /\ directories = EmptyDirectories
    /\ AtFirstNow

\* The effects of AppProvider's first commit, in declaration order, and of
\* the render they cause.  The load effect (l.104-109) calls loadState() and
\* dispatches LOAD_STATE when it returns an object; the save effect
\* (l.112-114) then runs with the state of the first render, initialState.
\* LOAD_STATE commits a second render whose save effect writes the loaded
\* state.  An exception leaving an effect unmounts the tree.
startupEffects ==
    /\ appPhase = "mounting"
    /\ LET loaded == loadState(storage)
       IN  IF loaded.threw
              THEN /\ appPhase' = "crashed"
                   /\ UNCHANGED <<currentProvider, providers, currentPlan,
                                  savedPlans, activityHistory, isAnalyzing,
                                  isPlanExecuting, storeVars>>
              ELSE \E ok1, ok2 \in BOOLEAN :
                     LET first == saveState(storage, AppState, ok1)
                         state == IF loaded.value = None
                                     THEN AppState
                                     ELSE LoadStateReducer(AppState,
                                                           loaded.value[1])
                     IN  /\ appPhase' = "ready"
                         /\ currentProvider' = state.currentProvider
                         /\ providers' = state.providers
                         /\ currentPlan' = state.currentPlan
                         /\ savedPlans' = state.savedPlans
                         /\ activityHistory' = state.activityHistory
                         /\ isAnalyzing' = state.isAnalyzing
                         /\ isPlanExecuting' = state.isPlanExecuting
                         /\ IF loaded.value = None
                               THEN /\ storage' = first
                                    /\ lastWrite' =
                                         IF ok1 THEN "ok" ELSE "failed"
                               ELSE /\ storage' = saveState(first, state, ok2)
                                    /\ lastWrite' =
                                         IF ok2 THEN "ok" ELSE "failed"
    /\ UNCHANGED <<directoryHandle, currentView, mounted, executorVars,
                   lastToast, clock, startClicks, builderVars,
                   organizerVars, groupingVars, batchVars>>

\* the session around the snapshot: startup, navigation, and the handlers of
\* the saved-plans and activity views
NextStore ==
    \/ startupEffects
    \/ onViewChange
    \/ handleLoadPlan
    \/ handleDeletePlan
    \/ handleClearHistory

SpecStore == InitStore /\ [][NextStore]_vars

(***************************************************************************)
(* The ledger alone.  SpecLedger applies the two context functions that    *)
(* write activityHistory, addActivityRecord (l.157-160) and clearHistory   *)
(* (l.162-164), in any order to the history of a started session, far      *)
(* enough for the history to overflow.  Only the reducer's result is       *)
(* followed here; the snapshot written after a transition is the subject   *)
(* of Spec and SpecStore.                                                  *)
(***************************************************************************)
InitLedger == Init /\ savedPlans = <<>>

addActivityRecord ==
    /\ Ready
    /\ UNCHANGED <<builderVars, organizerVars, groupingVars, batchVars>>
    /\ clock < MaxRecords
    /\ clock' = clock + 1
    /\ activityHistory' =
          AddActivityReducer(activityHistory,
                             addActivity(FileUploadRecord, clock + 1, 1))
    /\ UNCHANGED <<directoryHandle, currentView, currentPlan, mounted,
                   executorVars, isPlanExecuting, lastToast, startClicks,
                   savedPlans, settingsVars, storeVars, appPhase>>

clearHistory ==
    /\ Ready
    /\ UNCHANGED <<builderVars, organizerVars, groupingVars, batchVars>>
    /\ activityHistory' = ClearHistoryReducer
    /\ UNCHANGED <<directoryHandle, currentView, currentPlan, mounted,
                   executorVars, isPlanExecuting, lastToast, clock,
                   startClicks, savedPlans, settingsVars, storeVars,
                   appPhase>>

NextLedger == addActivityRecord \/ clearHistory

SpecLedger == InitLedger /\ [][NextLedger]_vars

(***************************************************************************)
(* The Plan Builder alone.  SpecBuilder hands AIService.analyzeFiles any   *)
(* response content of Contents and then serializes the plan it built, as  *)
(* a saved plan, to JSON and back.                                         *)
(***************************************************************************)
InitBuilder == InitLedger

\* analyzeFiles once the provider has answered with `content`
analyzeFiles ==
    /\ Ready
    /\ analysis = NotAnalyzed
    /\ \E content \in Contents(MaxFolders) :
          /\ aiContent' = content
          /\ analysis' = AnalysisOf(content)
    /\ UNCHANGED <<directoryHandle, currentView, currentPlan, mounted,
                   executorVars, activityHistory, isPlanExecuting, lastToast,
                   clock, startClicks, savedPlans, settingsVars, storeVars,
                   appPhase, reparsed, organizerVars, groupingVars,
                   batchVars>>

\* JSON.stringify(plan, null, 2) of the built plan as a saved plan
\* (SavedPlans.handleExportPlan), read back with JSON.parse
exportAndParse ==
    /\ Ready
    /\ analysis.status = "plan"
    /\ reparsed = None
    /\ reparsed' =
          Some(JSONParse(JSONStringify(
                 SavedPlanToJSON(SavedArchivePlan(1, analysis.plan)))).value)
    /\ UNCHANGED <<directoryHandle, currentView, currentPlan, mounted,
                   executorVars, activityHistory, isPlanExecuting, lastToast,
                   clock, startClicks, savedPlans, settingsVars, storeVars,
                   appPhase, aiContent, analysis, organizerVars,
                   groupingVars, batchVars>>

NextBuilder == analyzeFiles \/ exportAndParse

SpecBuilder == InitBuilder /\ [][NextBuilder]_vars

(***************************************************************************)
(* FileOrganizer.organizeFiles (part_008 l.77-160).  Both callers return   *)
(* before the call when no location is selected (FileUpload l.235,         *)
(* createOrganizedFolders l.277).  The files of a call are those of its     *)
(* fileMetadata, each carrying its originalFile; the names a               *)
(* recommendation lists come from the classifier (FileUpload l.289-303)    *)
(* and need not be among them.  The method awaits the file system once per   *)
(* folder and file, so the page can act between two recommendations: a run *)
(* is followed one recommendation at a time, and this.directoryHandle is   *)
(* read anew for each.  The file system refuses nothing but a lookup of a  *)
(* folder that is not there.                                               *)
(***************************************************************************)
\* the paths of the call's fileMetadata: the one uploaded file
fileMetadata == {"p1"}

Recommendations ==
    [folderName : RawNames, files : {<<>>, <<"p1">>, <<"p1", "p2">>}]

\* l.125-126: the files of a recommendation found in fileMetadata with an
\* originalFile; the others are passed over
FilesFound(files) ==
    SelectSeq(files, LAMBDA fileName : fileName \in fileMetadata)

\* the recommendation lists of a call: none, one or two recommendations
RecommendationLists ==
    {<<>>} \cup {<<r>> : r \in Recommendations}
           \cup {<<r, q>> : r \in Recommendations, q \in Recommendations}

\* the disk before the session: empty directories, or a folder "a" already
\* in the second one
InitialDirectories ==
    {EmptyDirectories,
     [EmptyDirectories EXCEPT !["dirB"].folders = {<<"a">>}]}

NewResult ==
    [success |-> TRUE, foldersCreated |-> <<>>, filesOrganized |-> 0,
     errors |-> <<>>]

FailedToCreateFolder(name) == [failed |-> "create folder", name |-> name]

\* the files of a recommendation written into folder `folderName` of `dir`
WriteFiles(dir, folderName, files) ==
    [dir EXCEPT !.files =
        @ \cup {<<folderName, FilesFound(files)[i]>> :
                    i \in DOMAIN FilesFound(files)}]

\* getDirectoryHandle(folderName, { create: true })
CreateFolder(dir, folderName) ==
    [dir EXCEPT !.folders = @ \cup {folderName}]

\* one pass of the loop of l.103-148 over recommendation `rec`
OrganizeStep(run, rec, handle, created, dirs) ==
    LET folderName == sanitizeFolderName(rec.folderName)
        exists == folderName \in dirs[handle].folders
        organized == [run.result EXCEPT
                         !.filesOrganized = @ + Len(FilesFound(rec.files))]
    IN  IF folderName \notin created
           THEN IF exists
                   THEN [run |-> [pending |-> Tail(run.pending),
                                  result |-> organized],
                         created |-> created,
                         dirs |-> [dirs EXCEPT ![handle] =
                                     WriteFiles(@, folderName, rec.files)]]
                   ELSE [run |-> [pending |-> Tail(run.pending),
                                  result |-> [organized EXCEPT
                                     !.foldersCreated =
                                         Append(@, folderName)]],
                         created |-> created \cup {folderName},
                         dirs |-> [dirs EXCEPT ![handle] =
                                     WriteFiles(CreateFolder(@, folderName),
                                                folderName, rec.files)]]
           ELSE IF exists
                   THEN [run |-> [pending |-> Tail(run.pending),
                                  result |-> organized],
                         created |-> created,
                         dirs |-> [dirs EXCEPT ![handle] =
                                     WriteFiles(@, folderName, rec.files)]]
                   ELSE [run |-> [pending |-> Tail(run.pending),
                                  result |-> [run.result EXCEPT
                                     !.errors = Append(@,
                                        FailedToCreateFolder(
                                            rec.folderName))]],
                         created |-> created,
                         dirs |-> dirs]

InitOrganizer ==
    /\ SessionStarted
    /\ savedPlans = <<>>
    /\ directories \in InitialDirectories
    /\ AtFirstNow

\* the call, up to the loop
organizeFiles ==
    /\ Ready
    /\ organizeRun = None
    /\ directoryHandle # Null
    /\ \E recommendations \in RecommendationLists :
          organizeRun' = Some([pending |-> recommendations,
                               result |-> NewResult])
    /\ lastResult' = None
    /\ UNCHANGED <<directoryHandle, currentView, currentPlan, mounted,
                   executorVars, activityHistory, isPlanExecuting, lastToast,
                   clock, startClicks, savedPlans, settingsVars, storeVars,
                   appPhase, builderVars, createdFolders, directories,
                   groupingVars, batchVars>>

organizeFilesNext ==
    /\ Ready
    /\ organizeRun # None
    /\ organizeRun[1].pending # <<>>
    /\ LET step == OrganizeStep(organizeRun[1], Head(organizeRun[1].pending),
                                directoryHandle, createdFolders, directories)
       IN  /\ organizeRun' = Some(step.run)
           /\ createdFolders' = step.created
           /\ directories' = step.dirs
    /\ UNCHANGED <<directoryHandle, currentView, currentPlan, mounted,
                   executorVars, activityHistory, isPlanExecuting, lastToast,
                   clock, startClicks, savedPlans, settingsVars, storeVars,
                   appPhase, builderVars, lastResult, groupingVars,
                   batchVars>>

\* l.150-154: the loop is over
organizeFilesReturn ==
    /\ Ready
    /\ organizeRun # None
    /\ organizeRun[1].pending = <<>>
    /\ lastResult' = Some([organizeRun[1].result EXCEPT
                              !.success = (organizeRun[1].result.errors = <<>>)])
    /\ organizeRun' = None
    /\ UNCHANGED <<directoryHandle, currentView, currentPlan, mounted,
                   executorVars, activityHistory, isPlanExecuting, lastToast,
                   clock, startClicks, savedPlans, settingsVars, storeVars,
                   appPhase, builderVars, createdFolders, directories,
                   groupingVars, batchVars>>

NextOrganizer ==
    \/ onViewChange
    \/ selectOrganizationLocation
    \/ organizeFiles
    \/ organizeFilesNext
    \/ organizeFilesReturn

SpecOrganizer == InitOrganizer /\ [][NextOrganizer]_vars

(***************************************************************************)
(* The provider functions of the context.  updateProvider (AppContext      *)
(* l.120-130) dispatches UPDATE_PROVIDER and, when the updates connect the *)
(* provider, SET_CURRENT_PROVIDER with the entry of the render's state     *)
(* merged with the updates; both are applied in one commit, which the save *)
(* effect follows.  Updates are a Partial<AIProvider>: a key is absent     *)
(* (None) or present (Some(v)).                                            *)
(***************************************************************************)
ProviderIds == {"openai", "ollama"}

ProviderUpdates ==
    {[apiKey |-> None, isConnected |-> Some(TRUE)],
     [apiKey |-> None, isConnected |-> Some(FALSE)],
     [apiKey |-> Some("key"), isConnected |-> None]}

\* { ...provider, ...updates }
MergeProvider(provider, updates) ==
    [id |-> provider.id,
     apiKey |-> IF updates.apiKey = None THEN provider.apiKey
                                         ELSE updates.apiKey[1],
     isConnected |-> IF updates.isConnected = None
                        THEN provider.isConnected
                        ELSE updates.isConnected[1]]

\* appReducer UPDATE_PROVIDER
UpdateProviderReducer(list, providerId, updates) ==
    [i \in DOMAIN list |->
        IF list[i].id = providerId THEN MergeProvider(list[i], updates)
                                   ELSE list[i]]

updateProvider ==
    /\ Ready
    /\ \E providerId \in ProviderIds, updates \in ProviderUpdates :
          /\ providers' = UpdateProviderReducer(providers, providerId, updates)
          /\ IF /\ updates.isConnected = Some(TRUE)
                /\ \E i \in DOMAIN providers : providers[i].id = providerId
                THEN LET updatedProvider ==
                            CHOOSE q \in {providers[i] : i \in DOMAIN providers} :
                               q.id = providerId
                     IN  currentProvider' =
                            Some(MergeProvider(updatedProvider, updates))
                ELSE UNCHANGED currentProvider
    /\ UNCHANGED <<directoryHandle, currentView, currentPlan, mounted,
                   executorVars, activityHistory, isPlanExecuting, lastToast,
                   clock, startClicks, savedPlans, isAnalyzing, appPhase,
                   builderVars, organizerVars, groupingVars, batchVars>>
    /\ SaveEffect

SpecSettings == InitLedger /\ [][updateProvider]_vars

(***************************************************************************)
(* ActivityHistory.groupedActivities (part_000 l.66-85) with date-fns: the *)
(* group key of one activity.  isToday and isYesterday compare local       *)
(* calendar days, subDays(now, 7) is the same local time seven days        *)
(* earlier, format(., 'EEEE') is the weekday and format(., 'MMM d, yyyy')  *)
(* the date of the local day.  Every local day has 24 hours here.          *)
(***************************************************************************)
MaxTicks == 96     \* quarter hours the session is followed for

QuarterHour == MinutesPerDay \div 96

Timezones == {-300, 0, 60}

\* how long ago the grouped activity was recorded
Ages == {30, 25 * 60, 3 * MinutesPerDay, 10 * MinutesPerDay}

\* timestamp: new Date().toISOString(), read back by new Date(timestamp):
\* the instant is written in UTC to the millisecond and parsed to the same
\* instant
toISOString(instant) == [utcDay |-> instant \div MinutesPerDay,
                         utcMinute |-> instant % MinutesPerDay]
NewDate(iso) == iso.utcDay * MinutesPerDay + iso.utcMinute

\* the local calendar day an instant falls on
LocalDay(instant, tz) == (instant + tz) \div MinutesPerDay

\* within the last 24 hours
isTodayRolling(date, nowInstant, tz) ==
    nowInstant - date < MinutesPerDay

isToday(date, nowInstant, tz) ==
    LocalDay(date, tz) = LocalDay(nowInstant, tz)

isYesterday(date, nowInstant, tz) ==
    LocalDay(date, tz) = LocalDay(nowInstant, tz) - 1

subDays(instant, days) == instant - days * MinutesPerDay

Weekday(day) == [kind |-> "weekday", weekday |-> day % 7]
AbsoluteDate(day) == [kind |-> "date", day |-> day]
Today == [kind |-> "Today"]
Yesterday == [kind |-> "Yesterday"]

\* l.67-78
DateKey(timestamp, nowInstant, tz) ==
    LET activityDate == NewDate(timestamp)
    IN  IF isToday(activityDate, nowInstant, tz)
           THEN Today
           ELSE IF isYesterday(activityDate, nowInstant, tz)
                   THEN Yesterday
                   ELSE IF activityDate > subDays(nowInstant, 7)
                           THEN Weekday(LocalDay(activityDate, tz))
                           ELSE AbsoluteDate(LocalDay(activityDate, tz))

InitGrouping ==
    /\ SessionStarted
    /\ savedPlans = <<>>
    /\ directories = EmptyDirectories
    /\ currentTime = FirstNow
    /\ timezone \in Timezones

\* a quarter of an hour passes
tick ==
    /\ Ready
    /\ currentTime < FirstNow + MaxTicks * QuarterHour
    /\ currentTime' = currentTime + QuarterHour
    /\ dateKey' = None
    /\ UNCHANGED <<directoryHandle, currentView, currentPlan, mounted,
                   executorVars, activityHistory, isPlanExecuting, lastToast,
                   clock, startClicks, savedPlans, settingsVars, storeVars,
                   appPhase, builderVars, organizerVars, timezone, batchVars>>

\* ActivityHistory renders an activity recorded `age` minutes ago
groupedActivities ==
    /\ Ready
    /\ \E age \in Ages :
          dateKey' = Some([age |-> age,
                           key |-> DateKey(toISOString(currentTime - age),
                                           currentTime, timezone)])
    /\ UNCHANGED <<directoryHandle, currentView, currentPlan, mounted,
                   executorVars, activityHistory, isPlanExecuting, lastToast,
                   clock, startClicks, savedPlans, settingsVars, storeVars,
                   appPhase, builderVars, organizerVars, currentTime,
                   timezone, batchVars>>

NextGrouping == tick \/ groupedActivities

SpecGrouping == InitGrouping /\ [][NextGrouping]_vars

(***************************************************************************)
(* BatchProcessor (part_002 l.246-381), followed from its mount on.  A     *)
(* file is known by its id; the queue only grows (onDrop appends).         *)
(* processBatch is an async function: it runs up to its first await inside *)
(* the click, and each later stretch runs when the awaited promise         *)
(* settles.  Every stretch reads `files`, `isPaused` and `currentFileIndex`*)
(* of the render whose processBatch was called, and updates the files by   *)
(* id through functional setFiles.  A suspended call is a record of        *)
(* batchLoops: its loop index i, what it awaits, and its closure (the      *)
(* number of files and isPaused of that render).  processFileForAnalysis   *)
(* resolves with a recommended folder or rejects.                          *)
(***************************************************************************)
MaxBatchFiles == 2  \* files dropped in one behaviour
MaxLoops == 2       \* processBatch calls suspended at the same time

ToastNoProvider == "Please configure an AI provider first"
ToastBatchCompleted == "Batch processing completed!"

\* state.currentProvider?.isConnected
isProviderConnected == currentProvider # None /\ currentProvider[1].isConnected

NewBatchFile(id) ==
    [id |-> id, status |-> "pending", recommendation |-> None, error |-> None]

\* setFiles(prev => prev.map(f => f.id === file.id ? {...f, ...} : f))
MarkProcessing(list, id) ==
    [j \in DOMAIN list |->
        IF list[j].id = id THEN [list[j] EXCEPT !.status = "processing"]
                           ELSE list[j]]

MarkCompleted(list, id, recommendedFolder) ==
    [j \in DOMAIN list |->
        IF list[j].id = id
           THEN [list[j] EXCEPT !.status = "completed",
                                !.recommendation = Some(recommendedFolder)]
           ELSE list[j]]

MarkError(list, id) ==
    [j \in DOMAIN list |->
        IF list[j].id = id
           THEN [list[j] EXCEPT !.status = "error",
                                !.error = Some("Processing failed")]
           ELSE list[j]]

RemoveAt(seq, k) == SubSeq(seq, 1, k - 1) \o SubSeq(seq, k + 1, Len(seq))

\* l.285-331 from the loop test for index i on: the call `loop` either
\* enters the body and suspends at the analysis of files[i], or leaves the
\* loop and, unless its isPaused is true, reports the batch completed.
\* `st` holds the state updates of the stretch so far.
LoopFrom(loop, i, st) ==
    IF i < loop.files /\ ~loop.isPaused
       THEN [st EXCEPT !.index = i,
                       !.files = MarkProcessing(@, i + 1),
                       !.loops = Append(@, [loop EXCEPT !.i = i,
                                               !.awaiting = "analysis"])]
       ELSE IF loop.isPaused
               THEN st
               ELSE [st EXCEPT !.isProcessing = FALSE, !.index = 0,
                               !.toast = ToastBatchCompleted]

BatchState ==
    [files |-> batchFiles, loops |-> batchLoops, isProcessing |-> isProcessing,
     index |-> currentFileIndex, toast |-> lastToast]

Commit(st) ==
    /\ batchFiles' = st.files
    /\ batchLoops' = st.loops
    /\ isProcessing' = st.isProcessing
    /\ currentFileIndex' = st.index
    /\ lastToast' = st.toast

\* what BatchProcessor's handlers leave alone
BatchOnly ==
    UNCHANGED <<directoryHandle, currentView, currentPlan, mounted,
                executorVars, activityHistory, isPlanExecuting, clock,
                startClicks, savedPlans, settingsVars, storeVars, appPhase,
                builderVars, organizerVars, groupingVars>>

\* processBatch called from the committed render, up to its first await
processBatchCall ==
    IF ~isProviderConnected
       THEN /\ lastToast' = ToastNoProvider
            /\ UNCHANGED batchVars
       ELSE /\ batchPaused' = FALSE
            /\ UNCHANGED batchProgress
            /\ Commit(LoopFrom([i |-> currentFileIndex,
                                awaiting |-> "analysis",
                                files |-> Len(batchFiles),
                                isPaused |-> batchPaused],
                               currentFileIndex,
                               [BatchState EXCEPT !.isProcessing = TRUE]))

InitBatch ==
    /\ \E connected \in BOOLEAN :
          IF connected
             THEN \* the session has called updateProvider('ollama',
                  \* { isConnected: true })
                  /\ currentProvider = Some(ConnectedProvider)
                  /\ providers = [InitialProviders EXCEPT
                                     ![3] = ConnectedProvider]
             ELSE /\ currentProvider = None
                  /\ providers = InitialProviders
    /\ PageStarted
    /\ savedPlans = <<>>
    /\ directories = EmptyDirectories
    /\ AtFirstNow

onDrop ==
    /\ Ready
    /\ Len(batchFiles) < MaxBatchFiles
    /\ batchFiles' = Append(batchFiles, NewBatchFile(Len(batchFiles) + 1))
    /\ lastToast' = "Added 1 files to batch queue"
    /\ UNCHANGED <<isProcessing, batchPaused, currentFileIndex, batchProgress,
                   batchLoops>>
    /\ BatchOnly

\* the "Start Processing" button
processBatch ==
    /\ Ready
    /\ batchFiles # <<>>
    /\ ~isProcessing /\ ~batchPaused
    /\ Len(batchLoops) < MaxLoops
    /\ processBatchCall
    /\ BatchOnly

\* processFileForAnalysis resolves: l.301-313, up to the delay
analysisResolved ==
    /\ Ready
    /\ \E k \in DOMAIN batchLoops :
          LET loop == batchLoops[k]
          IN  /\ loop.awaiting = "analysis"
              /\ batchFiles' = MarkCompleted(batchFiles, loop.i + 1, <<"a">>)
              /\ batchProgress' = <<loop.i + 1, loop.files>>
              /\ batchLoops' = [batchLoops EXCEPT ![k].awaiting = "delay"]
    /\ UNCHANGED <<isProcessing, batchPaused, currentFileIndex, lastToast>>
    /\ BatchOnly

\* processFileForAnalysis rejects: the catch of l.318-326, then the next
\* iteration
analysisRejected ==
    /\ Ready
    /\ \E k \in DOMAIN batchLoops :
          LET loop == batchLoops[k]
          IN  /\ loop.awaiting = "analysis"
              /\ Commit(LoopFrom(loop, loop.i + 1,
                           [BatchState EXCEPT
                               !.files = MarkError(@, loop.i + 1),
                               !.loops = RemoveAt(@, k)]))
    /\ UNCHANGED <<batchPaused, batchProgress>>
    /\ BatchOnly

\* the 500 ms delay is over: the next iteration
delayElapsed ==
    /\ Ready
    /\ \E k \in DOMAIN batchLoops :
          LET loop == batchLoops[k]
          IN  /\ loop.awaiting = "delay"
              /\ Commit(LoopFrom(loop, loop.i + 1,
                           [BatchState EXCEPT !.loops = RemoveAt(@, k)]))
    /\ UNCHANGED <<batchPaused, batchProgress>>
    /\ BatchOnly

\* the "Pause" button, rendered when isProcessing
pauseProcessing ==
    /\ Ready
    /\ batchFiles # <<>>
    /\ isProcessing
    /\ batchPaused' = TRUE
    /\ isProcessing' = FALSE
    /\ UNCHANGED <<batchFiles, currentFileIndex, batchProgress, batchLoops,
                   lastToast>>
    /\ BatchOnly

\* the "Resume" button, rendered when isPaused
resumeProcessing ==
    /\ Ready
    /\ batchFiles # <<>>
    /\ batchPaused
    /\ currentFileIndex < Len(batchFiles)
    /\ processBatchCall
    /\ BatchOnly

\* the "Stop" button, rendered when isProcessing || isPaused
stopProcessing ==
    /\ Ready
    /\ batchFiles # <<>>
    /\ isProcessing \/ batchPaused
    /\ isProcessing' = FALSE
    /\ batchPaused' = FALSE
    /\ currentFileIndex' = 0
    /\ batchProgress' = <<0, 1>>
    /\ UNCHANGED <<batchFiles, batchLoops, lastToast>>
    /\ BatchOnly

NextBatch ==
    \/ onDrop
    \/ processBatch
    \/ analysisResolved
    \/ analysisRejected
    \/ delayElapsed
    \/ pauseProcessing
    \/ resumeProcessing
    \/ stopProcessing

SpecBatch == InitBatch /\ [][NextBatch]_vars

(***************************************************************************)
(* What every reachable render of PlanExecutor looks like.  startExecution *)
(* leaves its loop before the first body and writes isExecuting back to    *)
(* false in the same synchronous stretch, so no render ever commits        *)
(* isExecuting = true: the Pause, Resume and Stop buttons are never        *)
(* rendered, executeStep is never called, and every step stays as          *)
(* useEffect created it.                                                   *)
(***************************************************************************)
EngineInert ==
    /\ ~isExecuting
    /\ ~isPaused
    /\ ~isPlanExecuting
    /\ currentStep = 0
    /\ overallProgress = 0
    /\ \A i \in DOMAIN steps :
          steps[i].status = PENDING /\ steps[i].progress = 0
                                    /\ steps[i].error = Null

\* a run over a plan with operations has been started and has ended, and its
\* steps are still pending
InertRunEnded ==
    /\ mounted
    /\ endTime # None
    /\ Len(steps) >= 2
    /\ \A i \in DOMAIN steps : steps[i].status = PENDING

(***************************************************************************)
(* C7: a click on Start with no target location selected is refused: the   *)
(* "select a location" error is shown, the engine does not start a run     *)
(* (isExecuting, isPlanExecuting, startTime, endTime and the activity      *)
(* history stay as they were), and every step stays pending with           *)
(* progress 0, none of them executed.                                      *)
(***************************************************************************)
C7_StartWithoutLocationRefused ==
    [][(startClicks' # startClicks /\ directoryHandle = Null) =>
          /\ lastToast' = ToastNoLocation
          /\ UNCHANGED <<executorVars, activityHistory, isPlanExecuting,
                         mounted, currentPlan, currentView>>
          /\ ~isExecuting'
          /\ \A i \in DOMAIN steps' :
                steps'[i].status = PENDING /\ steps'[i].progress = 0]_vars

\* Start was clicked on a mounted executor of a plan with operations while no
\* location was selected
C7_Witness ==
    /\ mounted
    /\ directoryHandle = Null
    /\ startClicks >= 1
    /\ lastToast = ToastNoLocation
    /\ Len(steps) >= 2

(***************************************************************************)
(* C12: every failure outcome of the engine leaves at least one record in  *)
(* the activity ledger; in particular a click on Start that is rejected    *)
(* because no location is selected changes the activity history.           *)
(***************************************************************************)
C12_RejectedStartIsRecorded ==
    [][(startClicks' # startClicks /\ directoryHandle = Null) =>
          activityHistory' # activityHistory]_vars

C15_LedgerBounded ==
    /\ Len(activityHistory) <= 100
    /\ activityHistory # <<>> =>
          /\ activityHistory[1].id = <<clock, 1>>
          /\ \A i \in DOMAIN activityHistory :
                activityHistory[i].timestamp <= activityHistory[1].timestamp

\* more than 100 records have been recorded into a history never cleared
C15_Witness ==
    /\ Len(activityHistory) = 100
    /\ clock > 100
    /\ activityHistory[100].timestamp = clock - 99

(***************************************************************************)
(* C16: record() never alters or reorders existing records.  Whenever the  *)
(* history changes, either it was cleared, or it is a new record followed  *)
(* by the first 99 records of the previous history in the same order, so   *)
(* that nothing but the oldest records is dropped.                         *)
(***************************************************************************)
C16_RecordOnlyPrepends ==
    [][activityHistory' # activityHistory =>
          \/ activityHistory' = <<>>
          \/ /\ activityHistory' # <<>>
             /\ \A i \in DOMAIN activityHistory :
                   activityHistory'[1].id # activityHistory[i].id
             /\ Tail(activityHistory') =
                   SubSeq(activityHistory, 1,
                          Min(Len(activityHistory), 99))]_vars

\* a full history has taken one more record: the oldest one is gone and the
\* second oldest is now the last
C16_Witness ==
    /\ Len(activityHistory) = 100
    /\ activityHistory[1].timestamp - activityHistory[100].timestamp = 99
    /\ activityHistory[100].timestamp >= 2

C18_StorageFailuresSwallowed ==
    /\ [](appPhase # "crashed")
    /\ [][(appPhase = "mounting" /\ storage \in {Absent, Garbage}) =>
             (appPhase' = "ready" /\ AppStateNext = initialState)]_vars
    /\ [][(appPhase = "ready" /\ lastWrite' = "failed") =>
             (appPhase' = "ready" /\ storage' = storage)]_vars

\* the session started over an unparseable snapshot, its write failed too, and
\* it runs from the initial state: the user has navigated
C18_Witness ==
    /\ appPhase = "ready"
    /\ storage = Garbage
    /\ lastWrite = "failed"
    /\ AppState = initialState
    /\ currentView = "saved-plans"

(***************************************************************************)
(* C19: after the startup load, currentPlan, isAnalyzing and               *)
(* isPlanExecuting hold their initial values whatever keys the snapshot    *)
(* contains, and so does every persisted field the snapshot lacks.         *)
(***************************************************************************)
C19_UnpersistedFieldsKeepInitialValue ==
    [][(appPhase = "mounting" /\ appPhase' = "ready") =>
          /\ currentPlan' = initialState.currentPlan
          /\ isAnalyzing' = initialState.isAnalyzing
          /\ isPlanExecuting' = initialState.isPlanExecuting
          /\ \A key \in StateKeys :
                (\/ loadState(storage).value = None
                 \/ loadState(storage).value[1][key] = None)
                   => AppStateNext[key] = initialState[key]]_vars

C21_StartupKeepsSnapshot ==
    [][(/\ appPhase = "mounting"
        /\ appPhase' = "ready"
        /\ storage.kind = "json"
        /\ storage.value = stateToSave(LoadStateReducer(initialState,
                                                        storage.value))) =>
          /\ storage' = storage
          /\ currentProvider' = storage.value.currentProvider[1]
          /\ providers' = storage.value.providers[1]
          /\ savedPlans' = storage.value.savedPlans[1]
          /\ activityHistory' = storage.value.activityHistory[1]]_vars

(***************************************************************************)
(* Reading a built plan                                                    *)
(***************************************************************************)
PlanBuilt == analysis.status = "plan"

OperationKinds == {"create_folder", "move", "copy", "link", "convert", "skip"}

\* the files of the folders of `folders` whose name sanitizes to `name`, in
\* their order
RECURSIVE FilesSanitizingTo(_, _)
FilesSanitizingTo(folders, name) ==
    IF folders = <<>>
       THEN <<>>
       ELSE (IF sanitizeFolderName(Head(folders).name) = name
                THEN Head(folders).files[1]
                ELSE <<>>)
               \o FilesSanitizingTo(Tail(folders), name)

\* the sum of the confidences of a list of files
RECURSIVE FileConfidenceTotal(_)
FileConfidenceTotal(files) ==
    IF files = <<>>
       THEN 0
       ELSE Head(files).confidence[1] + FileConfidenceTotal(Tail(files))

\* folder by folder: the folder's confidence and those of its files
RECURSIVE ConfidenceTotal(_)
ConfidenceTotal(folders) ==
    IF folders = <<>>
       THEN 0
       ELSE Head(folders).confidence[1]
               + FileConfidenceTotal(Head(folders).files[1])
               + ConfidenceTotal(Tail(folders))

RECURSIVE ConfidenceCount(_)
ConfidenceCount(folders) ==
    IF folders = <<>>
       THEN 0
       ELSE 1 + Len(Head(folders).files[1])
              + ConfidenceCount(Tail(folders))

AllConfidencesPresent(folders) ==
    \A i \in DOMAIN folders :
        /\ folders[i].confidence # None
        /\ \A j \in DOMAIN folders[i].files[1] :
              folders[i].files[1][j].confidence # None

(***************************************************************************)
(* C22: in a built plan, operations[] holds exactly one create_folder per  *)
(* distinct sanitized folder name, and it comes before every operation     *)
(* targeting that folder.                                                  *)
(***************************************************************************)
C22_OneCreateFolderPerName ==
    PlanBuilt =>
        LET ops == analysis.plan.operations
        IN  \A k \in DOMAIN ops :
               LET name == sanitizeFolderName(ops[k].target)
                   creates == {i \in DOMAIN ops :
                                 /\ ops[i].op = "create_folder"
                                 /\ sanitizeFolderName(ops[i].target) = name}
               IN  /\ Cardinality(creates) = 1
                   /\ ops[k].op # "create_folder" =>
                         \A i \in creates : i < k

(***************************************************************************)
(* C23: if raw folder names of the classification sanitize to the same     *)
(* name, the built plan holds a single FolderPlan for that name, and its   *)
(* file list is the concatenation of their file lists in their order.      *)
(***************************************************************************)
C23_CollidingFoldersMerged ==
    PlanBuilt =>
        LET folders == analysis.plan.folders
            classified == IF aiContent.value.folders = None
                             THEN <<>>
                             ELSE aiContent.value.folders[1]
        IN  \A i \in DOMAIN folders :
               LET name == sanitizeFolderName(folders[i].name)
               IN  /\ \A j \in DOMAIN folders :
                         sanitizeFolderName(folders[j].name) = name => j = i
                   /\ folders[i].files[1] =
                         FilesSanitizingTo(classified, name)

(***************************************************************************)
(* C24: no operation of a built plan has among its items a path listed in  *)
(* sensitive[].                                                            *)
(***************************************************************************)
C24_SensitiveFilesExcluded ==
    PlanBuilt =>
        \A i \in DOMAIN analysis.plan.operations :
            \A k \in DOMAIN analysis.plan.sensitive :
                \A j \in DOMAIN analysis.plan.operations[i].items :
                    analysis.plan.operations[i].items[j]
                        # analysis.plan.sensitive[k].path

(***************************************************************************)
(* C25: a response that is not JSON, or is JSON without a folders array or *)
(* with a folder without a files list, makes plan building fail with an    *)
(* error: no plan is produced.                                             *)
(***************************************************************************)
C25_MalformedResponseRejected ==
    (/\ analysis # NotAnalyzed
     /\ \/ aiContent.kind # "json"
        \/ aiContent.value.folders = None
        \/ \E i \in DOMAIN aiContent.value.folders[1] :
              aiContent.value.folders[1][i].files = None)
       => analysis.status = "error"

C27_OperationKindsValid ==
    PlanBuilt =>
        \A i \in DOMAIN analysis.plan.operations :
            analysis.plan.operations[i].op \in OperationKinds

(***************************************************************************)
(* C28: a saved plan serialized to JSON and parsed back is deep-equal to   *)
(* the original.                                                           *)
(***************************************************************************)
C28_SavedPlanRoundTrip ==
    reparsed # None => reparsed[1] = SavedArchivePlan(1, analysis.plan)

(***************************************************************************)
(* Reading a run of organizeFiles                                          *)
(***************************************************************************)
\* organizeFiles goes through one recommendation
RunStep ==
    /\ organizeRun # None
    /\ organizeRun[1].pending # <<>>
    /\ organizeRun' # organizeRun

NoDuplicates(seq) ==
    \A i \in DOMAIN seq : \A j \in DOMAIN seq : seq[i] = seq[j] => i = j

Names(seq) == {seq[i] : i \in DOMAIN seq}

\* no call ever reports a folder twice, and a folder reported as created was
\* not on disk before
FoldersCreatedOnce ==
    /\ organizeRun # None => NoDuplicates(organizeRun[1].result.foldersCreated)
    /\ lastResult # None => NoDuplicates(lastResult[1].foldersCreated)

(***************************************************************************)
(* C29: after the location is re-selected, a run of organizeFiles writes   *)
(* into the new location and creates each target folder there on demand,   *)
(* also a folder an earlier run created in the previous location; what was *)
(* written before stays where it is.                                       *)
(***************************************************************************)
C29_RunWritesIntoSelectedLocation ==
    [][RunStep =>
          LET rec == Head(organizeRun[1].pending)
              folderName == sanitizeFolderName(rec.folderName)
          IN  /\ folderName \in directories'[directoryHandle].folders
              /\ \A i \in DOMAIN FilesFound(rec.files) :
                    <<folderName, FilesFound(rec.files)[i]>>
                        \in directories'[directoryHandle].files
              /\ \A h \in Handles :
                    /\ directories[h].folders \subseteq directories'[h].folders
                    /\ directories[h].files \subseteq directories'[h].files]_vars

(***************************************************************************)
(* C30: within a run of organizeFiles a sanitized folder name is created   *)
(* at most once, a later recommendation resolving to a name the run has    *)
(* already created reuses the folder without error, and foldersCreated     *)
(* never lists a name twice.                                               *)
(***************************************************************************)
C30_FolderCreationIdempotent ==
    [][RunStep =>
          LET rec == Head(organizeRun[1].pending)
              folderName == sanitizeFolderName(rec.folderName)
              before == organizeRun[1].result
              after == organizeRun'[1].result
          IN  /\ NoDuplicates(after.foldersCreated)
              /\ folderName \in Names(before.foldersCreated) =>
                    /\ after.foldersCreated = before.foldersCreated
                    /\ after.errors = before.errors
                    /\ after.filesOrganized
                          = before.filesOrganized
                               + Len(FilesFound(rec.files))]_vars

(***************************************************************************)
(* C31: sanitizeFolderName removes every character illegal in file-system  *)
(* names, replaces each whitespace run by one underscore, lowercases and   *)
(* truncates to at most 50 characters; the result holds no illegal         *)
(* character, no whitespace and no uppercase letter.                       *)
(***************************************************************************)
RemoveInvalid(name) == SelectSeq(name, LAMBDA ch : ch \notin InvalidChars)

UppercaseChars == {"A", "B"}

C31_SanitizeStripsIllegal ==
    [][RunStep =>
          LET raw == Head(organizeRun[1].pending).folderName
              before == organizeRun[1].result.foldersCreated
              after == organizeRun'[1].result.foldersCreated
              removed == CollapseWhitespace(RemoveInvalid(raw))
              cut == SubSeq(removed, 1, Min(Len(removed), MaxFolderNameLength))
          IN  after # before =>
                 LET name == after[Len(after)]
                 IN  /\ name = [i \in 1..Len(cut) |-> toLowerCase(cut[i])]
                     /\ Len(name) <= MaxFolderNameLength
                     /\ \A i \in DOMAIN name :
                           name[i] \notin InvalidChars \cup WhitespaceChars
                                              \cup UppercaseChars]_vars

(***************************************************************************)
(* Reading the group of an activity                                        *)
(***************************************************************************)
\* minutes since the local midnight
LocalMinuteOfDay == (currentTime + timezone) % MinutesPerDay

LocalToday == (currentTime + timezone) \div MinutesPerDay

C33_CurrentProviderMirrorsEntry ==
    currentProvider # None =>
        \E i \in DOMAIN providers :
            /\ providers[i].id = currentProvider[1].id
            /\ providers[i] = currentProvider[1]

(***************************************************************************)
(* C34: a run started with a location selected and never stopped           *)
(* terminates: once the engine has left the running state every step of    *)
(* the run is completed or failed.                                         *)
(***************************************************************************)
C34_EndedRunHasStepsFinished ==
    (mounted /\ endTime # None /\ ~isExecuting) =>
        \A i \in DOMAIN steps : steps[i].status \in {COMPLETED, FAILED}

\* the records of `history` that close a run: a cancellation, or an
\* execution record that is no longer in progress
ClosingRecords(history) ==
    {k \in DOMAIN history :
        \/ history[k].type = PLAN_CANCELLED
        \/ /\ history[k].type = PLAN_EXECUTED
           /\ history[k].status # IN_PROGRESS}

\* the status step i of the run is left in
FinalStepStatus(i) == IF mounted' THEN steps'[i].status ELSE steps[i].status

(***************************************************************************)
(* C35: each started run appends exactly one closing record to the         *)
(* ledger: a run that was not stopped gets a plan_executed record whose    *)
(* status is completed if every step completed and failed otherwise, and   *)
(* no plan_cancelled record.                                               *)
(***************************************************************************)
C35_OneClosingRecord ==
    [][(startClicks' # startClicks /\ directoryHandle # Null) =>
          LET closing == {k \in ClosingRecords(activityHistory') :
                             activityHistory'[k].id[1] = clock'}
              expected == IF \A i \in DOMAIN steps :
                                 FinalStepStatus(i) = COMPLETED
                             THEN COMPLETED ELSE FAILED
          IN  /\ Cardinality(closing) = 1
              /\ Cardinality(ClosingRecords(activityHistory')) =
                    Cardinality(ClosingRecords(activityHistory)) + 1
              /\ \A k \in closing :
                    /\ activityHistory'[k].type = PLAN_EXECUTED
                    /\ activityHistory'[k].title = "Plan Execution Completed"
                    /\ activityHistory'[k].status = expected]_vars

\* a run over a plan with operations has ended by itself: the ledger opens
\* with its failed closing record, stamped with the run's started record
C35_Witness ==
    /\ mounted
    /\ steps # <<>>
    /\ endTime # None
    /\ Len(activityHistory) >= 2
    /\ activityHistory[1].type = PLAN_EXECUTED
    /\ activityHistory[1].status = FAILED
    /\ activityHistory[2].title = "Plan Execution Started"
    /\ activityHistory[2].id[1] = activityHistory[1].id[1]

(***************************************************************************)
(* C36: whenever the engine is not executing (before a start, after a run  *)
(* has ended by itself, after a stop) the pause flag is false.             *)
(***************************************************************************)
C36_IdleEngineNotPaused ==
    ~isExecuting => ~isPaused

\* a second click on Start is on offer after a run has ended by itself
C36_Witness ==
    /\ StartButtonRendered
    /\ ~isPaused
    /\ endTime # None
    /\ startClicks = 1
    /\ isLocationSelected

(***************************************************************************)
(* C37: organizeFiles reports every file it did not write: a pass over a   *)
(* recommendation that adds no error has written every file the            *)
(* recommendation lists into its folder and counted it, so that success    *)
(* is returned only when filesOrganized is the number of files listed.     *)
(***************************************************************************)
C37_UnwrittenFilesReported ==
    [][RunStep =>
          LET rec == Head(organizeRun[1].pending)
              folderName == sanitizeFolderName(rec.folderName)
              before == organizeRun[1].result
              after == organizeRun'[1].result
          IN  after.errors = before.errors =>
                 /\ after.filesOrganized
                       = before.filesOrganized + Len(rec.files)
                 /\ \A i \in DOMAIN rec.files :
                       <<folderName, rec.files[i]>>
                           \in directories'[directoryHandle].files]_vars

\* the ids of the files in status 'processing'
Processing(list) == {list[j].id : j \in {m \in DOMAIN list :
                                            list[m].status = "processing"}}

(***************************************************************************)
(* C38: after pause() no further file enters 'processing' until resume():  *)
(* no step taken while the batch is paused puts a file into 'processing';  *)
(* and resume() never adds a processBatch loop to one that is still        *)
(* running over the queue.                                                 *)
(***************************************************************************)
C38_PauseHoldsTheQueue ==
    [][/\ (batchPaused /\ batchPaused') =>
             Processing(batchFiles') \subseteq Processing(batchFiles)
       /\ (batchPaused /\ ~batchPaused' /\ batchLoops # <<>>) =>
             Len(batchLoops') <= Len(batchLoops)]_vars

====
